---- MODULE Spec2Model ----
(***************************************************************************)
(* Expression evaluation and scope resolution of classad/_expression.py.   *)
(*                                                                         *)
(* Every evaluate / from_grammar / __eq__ method is a pure function of the *)
(* node and of the arguments of the call, so each is an operator computed  *)
(* the way the Python code computes it, and each specification draws the   *)
(* arguments of one call from bounded sets and applies the method.         *)
(*                                                                         *)
(* Encoding.  A Python string that holds a dotted path is the sequence of  *)
(* its dot-separated components ("n.a" is <<"n", "a">>, "" is <<>>).       *)
(* A call returns [exc, v, trace]: exc = "none" and the value v, or the    *)
(* name of the exception that leaves the call; trace lists the lookups     *)
(* context[expression] the call made, in order.                            *)
(***************************************************************************)
EXTENDS Integers, Sequences, FiniteSets, TLC

VARIABLES pc, node, other, key, my, target, ret

vars == <<pc, node, other, key, my, target, ret>>

---------------------------------------------------------------------------
(* Bounds of the model *)

\* depth of record nesting: scopes "", "n", "n.n", ...
MaxNest == 2
\* nested evaluate frames Python allows before it raises RecursionError
MaxDepth == 6
\* operator/operand pairs after the first operand of a chain
MaxPairs == 2
\* arguments of a function call
MaxArgs == 2

---------------------------------------------------------------------------
(* Values *)

NoneVal == [t |-> "none"]
Undefined == [t |-> "undef"]
Error == [t |-> "error"]
\* a Python number n/d; fl says it is a float (the result of a true division)
NumQ(n, d, fl) == [t |-> "num", n |-> n, d |-> d, fl |-> fl]
Num(n) == NumQ(n, 1, FALSE)
Bool(b) == [t |-> "bool", b |-> b]
\* a value computed by the operator overloads of classad._primitives
Opaque == [t |-> "opaque"]
Str(s) == [t |-> "str", s |-> s]
\* a (nested) record of a ClassAd, named by its path from the top
Rec(p) == [t |-> "rec", p |-> p]
\* a ClassAd object handed to evaluate as my / target / (by mistake) key
Ad(d) == [t |-> "classad", d |-> d]

\* AttributeExpression: _expression is a str (relative form) or the list
\* [".", tail] / ["super", name]
Attr(form, name) == [t |-> "attr", form |-> form, name |-> name]
RelRef(name) == Attr("rel", name)
AbsRef(tail) == Attr(".", tail)
SuperRef(name) == Attr("super", name)

Ok(v, tr) == [exc |-> "none", v |-> v, trace |-> tr]
Raise(x, tr) == [exc |-> x, v |-> NoneVal, trace |-> tr]

Last(s) == s[Len(s)]
ButLast(s) == SubSeq(s, 1, Len(s) - 1)

\* str.split("."): the empty string splits into one empty component
Split(s) == IF s = <<>> THEN <<"">> ELSE s
\* ".".join(list)
Join(l) == IF l = <<"">> THEN <<>> ELSE l

---------------------------------------------------------------------------
(* The record type the evaluator reads: name lookup that yields Undefined  *)
(* for a missing key, dotted-path indexing that fails with TypeError when  *)
(* the path runs through something that is not a record.                   *)

RECURSIVE GetItem(_, _, _)
GetItem(d, base, comps) ==
  LET p == Append(base, Head(comps)) IN
  IF p \notin DOMAIN d THEN Ok(Undefined, <<>>)
  ELSE IF Len(comps) = 1 THEN Ok(d[p], <<>>)
  ELSE IF d[p].t = "rec" THEN GetItem(d, p, Tail(comps))
  ELSE IF d[p].t = "undef" THEN Ok(Undefined, <<>>)
  ELSE Raise("TypeError", <<>>)

\* obj[k] for any Python object obj met as `my` or as a scope
Subscript(obj, k, m) ==
  IF obj.t = "classad"
    THEN IF k.t = "str" THEN GetItem(obj.d, <<>>, Split(k.s))
         ELSE Raise("TypeError", <<>>)
  ELSE IF obj.t = "rec"
    THEN IF k.t = "str" THEN GetItem(m.d, obj.p, Split(k.s))
         ELSE Raise("TypeError", <<>>)
  ELSE Raise("TypeError", <<>>)

\* len(obj) of a str (0 iff empty) or of a ClassAd (its top-level attributes)
PyLen(k) ==
  IF k.t = "str" THEN Len(k.s)
  ELSE Cardinality({p \in DOMAIN k.d : Len(p) = 1 /\ k.d[p].t # "undef"})

---------------------------------------------------------------------------
(* scope_up and AttributeExpression.evaluate *)

scope_up_drop2(k) == Join(SubSeq(Split(k), 1, Len(Split(k)) - 2))

scope_up(k) == Join(ButLast(Split(k)))

\* the closure find_scope of evaluate; len(None) is a TypeError
find_scope(current_key, m) ==
  IF current_key.t = "none" THEN Raise("TypeError", <<>>)
  ELSE IF PyLen(current_key) > 0 THEN Subscript(m, current_key, m)
  ELSE Ok(IF m.t = "classad" THEN Rec(<<>>) ELSE m, <<>>)

\* lines 175-182: the key the walk starts from
start_key_from_caller(e, k) ==
  IF e.form \in {".", "super"}
    THEN IF k.t = "str" THEN Ok(Str(scope_up(k.s)), <<>>)
         ELSE Raise("AttributeError", <<>>)
    ELSE Ok(k, <<>>)

start_key(e, k) ==
  IF e.form = "." THEN Ok(Str(scope_up(e.name)), <<>>)
  ELSE IF e.form = "super"
    THEN IF k.t = "str" THEN Ok(Str(scope_up(k.s)), <<>>)
         ELSE Raise("AttributeError", <<>>)
  ELSE Ok(k, <<>>)

\* lines 175-182: the name the walk looks up
lookup_name(e) ==
  IF e.form = "." THEN <<Last(Split(e.name))>> ELSE e.name

\* lines 187-193: the while loop; yields the value found and the key it
\* was found at
RECURSIVE scope_walk(_, _, _, _, _)
scope_walk(k, context, expression, m, tr) ==
  LET got == Subscript(context, Str(expression), m)
      tr1 == Append(tr, [key |-> k, name |-> expression])
  IN
  IF got.exc # "none" THEN [exc |-> got.exc, v |-> NoneVal, key |-> k, trace |-> tr1]
  ELSE IF got.v.t # "undef"
    THEN [exc |-> "none", v |-> got.v, key |-> k, trace |-> tr1]
  ELSE IF PyLen(k) = 0
    THEN [exc |-> "none", v |-> Undefined, key |-> k, trace |-> tr1]
  ELSE LET up == Str(scope_up(k.s))
           ctx == find_scope(up, m)
       IN IF ctx.exc # "none"
            THEN [exc |-> ctx.exc, v |-> NoneVal, key |-> up, trace |-> tr1]
            ELSE scope_walk(up, ctx.v, expression, m, tr1)

RECURSIVE AttributeExpression_evaluate(_, _, _, _, _)
AttributeExpression_evaluate(e, k, m, tgt, depth) ==
  IF depth > MaxDepth THEN Raise("RecursionError", <<>>)
  ELSE
  LET sk == start_key(e, k) IN
  IF sk.exc # "none" THEN Raise(sk.exc, <<>>)
  ELSE
  LET context == find_scope(sk.v, m) IN
  IF context.exc = "TypeError" THEN Ok(Error, <<>>)
  ELSE IF context.exc # "none" THEN Raise(context.exc, <<>>)
  ELSE
  LET w == scope_walk(sk.v, context.v, lookup_name(e), m, <<>>) IN
  IF w.exc # "none" THEN Raise(w.exc, w.trace)
  ELSE IF w.v.t = "attr"
    THEN LET r == AttributeExpression_evaluate(w.v, w.key, m, tgt, depth + 1)
         IN [exc |-> r.exc, v |-> r.v, trace |-> w.trace \o r.trace]
  ELSE Ok(w.v, w.trace)

---------------------------------------------------------------------------
(* DotExpression.evaluate *)

\* a str can be a member of the set `checked`; the list that an absolute
\* or super-qualified reference holds is unhashable
Hashable(e) == e.form = "rel"

\* lines 102-108: the while loop; tr lists the names added to `checked`
RECURSIVE dot_walk(_, _, _, _)
dot_walk(left, to_check, checked, tr) ==
  IF to_check.t # "attr" THEN Ok(to_check, tr)
  ELSE IF ~Hashable(to_check) THEN Raise("TypeError", tr)
  ELSE IF to_check.name \notin checked
    THEN LET got == Subscript(left, Str(to_check.name), left) IN
         IF got.exc # "none" THEN Raise(got.exc, Append(tr, to_check.name))
         ELSE dot_walk(left, got.v, checked \cup {to_check.name},
                       Append(tr, to_check.name))
  ELSE Ok(Undefined, tr)

DotExpression_evaluate(n, k, m, tgt) == dot_walk(n.left, n.right, {}, <<>>)

Dot(left, right) == [t |-> "dot", left |-> left, right |-> right]

---------------------------------------------------------------------------
(* The operator table of ArithmeticExpression, applied as Python applies   *)
(* it to numbers, booleans, references and the primitive markers           *)

Ops == {"+", "-", "*", "/", "<", "<=", "=>", ">", "==", "!=", "&&", "||",
        "=!=", "isnt", "=?=", "is"}

\* the callable a token maps to: two spellings share one callable
operator_of(tok) ==
  IF tok \in {"=!=", "isnt"} THEN "evaluate_isnt_operator"
  ELSE IF tok \in {"=?=", "is"} THEN "evaluate_is_operator"
  ELSE tok

RECURSIVE Gcd(_, _)
Gcd(a, b) == IF b = 0 THEN a ELSE Gcd(b, a % b)

Norm(n, d, fl) ==
  LET g == Gcd(IF n < 0 THEN -n ELSE n, d) IN NumQ(n \div g, d \div g, fl)

\* int & int on Python's unbounded two's-complement integers
RECURSIVE BitAnd(_, _)
BitAnd(a, b) ==
  IF a = 0 \/ b = 0 THEN 0
  ELSE IF a = -1 THEN b
  ELSE IF b = -1 THEN a
  ELSE (a % 2) * (b % 2) + 2 * BitAnd(a \div 2, b \div 2)

BitOr(a, b) == a + b - BitAnd(a, b)

IsNumeric(x) == x.t \in {"num", "bool"}

\* bool is a subclass of int: True is 1, False is 0
AsNum(x) == IF x.t = "bool" THEN Num(IF x.b THEN 1 ELSE 0) ELSE x

\* the operator on two numbers (or booleans)
NumericApply(tok, x, y) ==
  LET a == AsNum(x)
      b == AsNum(y)
      fl == a.fl \/ b.fl
      l == a.n * b.d
      r == b.n * a.d
  IN
  CASE tok = "+" -> Ok(Norm(l + r, a.d * b.d, fl), <<>>)
    [] tok = "-" -> Ok(Norm(l - r, a.d * b.d, fl), <<>>)
    [] tok = "*" -> Ok(Norm(a.n * b.n, a.d * b.d, fl), <<>>)
    [] tok = "/" ->
         IF b.n = 0 THEN Raise("ZeroDivisionError", <<>>)
         ELSE IF r < 0 THEN Ok(Norm(-l, -r, TRUE), <<>>)
         ELSE Ok(Norm(l, r, TRUE), <<>>)
    [] tok = "<" -> Ok(Bool(l < r), <<>>)
    [] tok = "<=" -> Ok(Bool(l <= r), <<>>)
    [] tok = "=>" -> Ok(Bool(l >= r), <<>>)
    [] tok = ">" -> Ok(Bool(l > r), <<>>)
    [] tok = "==" -> Ok(Bool(l = r), <<>>)
    [] tok = "!=" -> Ok(Bool(l # r), <<>>)
    [] tok \in {"&&", "||"} ->
         IF fl THEN Raise("TypeError", <<>>)
         ELSE IF x.t = "bool" /\ y.t = "bool"
           THEN Ok(Bool(IF tok = "&&" THEN x.b /\ y.b ELSE x.b \/ y.b), <<>>)
         ELSE Ok(Num(IF tok = "&&" THEN BitAnd(a.n, b.n) ELSE BitOr(a.n, b.n)), <<>>)
    [] OTHER -> Raise("AttributeError", <<>>)

\* AttributeExpression's overloads, lines 120-164
attribute_operator(tok, a, b) ==
  IF tok \in {"+", "-", "*", "/", "&&", "||"} THEN Raise("ArithmeticError", <<>>)
  ELSE IF tok = "==" /\ b.t = "attr" THEN Ok(Bool(a = b), <<>>)
  ELSE Raise("TypeError", <<>>)

\* operator_map[tok](a, b)
operator_map(tok, a, b) ==
  IF a.t = "attr" THEN attribute_operator(tok, a, b)
  ELSE IF IsNumeric(a)
    THEN IF IsNumeric(b) THEN NumericApply(tok, a, b)
         ELSE IF operator_of(tok) \in {"evaluate_isnt_operator", "evaluate_is_operator"}
           THEN Raise("AttributeError", <<>>)
         ELSE IF b.t = "attr" THEN Raise("TypeError", <<>>)
         ELSE IF b.t \in {"undef", "error", "opaque"} THEN Ok(Opaque, <<>>)
         ELSE Raise("TypeError", <<>>)
  ELSE IF a.t \in {"undef", "error", "opaque"} THEN Ok(Opaque, <<>>)
  ELSE Raise("TypeError", <<>>)

\* ArithmeticExpression._calculate, lines 257-261
calculate(first, second, operand) ==
  LET r == operator_map(operand, first, second) IN
  IF r.exc \in {"ArithmeticError", "ZeroDivisionError", "AttributeError", "TypeError"}
    THEN Raise("NotImplementedError", <<>>)
    ELSE r

Arith(tokens) == [t |-> "arith", e |-> tokens]

\* ArithmeticExpression.from_grammar, lines 244-255
ArithmeticExpression_from_grammar(tokens) ==
  LET r == calculate(tokens[1], tokens[Len(tokens)], tokens[2]) IN
  IF r.exc = "NotImplementedError" THEN Ok(Arith(tokens), <<>>)
  ELSE r

---------------------------------------------------------------------------
(* evaluate of the remaining node kinds *)

Named(tok) == [t |-> "named", e |-> tok]
Func(name, args) == [t |-> "func", name |-> name, args |-> args]

\* isinstance(x, Expression)
IsExpression(x) == x.t \in {"named", "attr", "dot", "arith", "func"}

RECURSIVE Expression_evaluate(_, _, _, _, _)

\* ArithmeticExpression.evaluate, lines 276-285: the fold from position
\* pos (0-based, as in the code) on
RECURSIVE arith_fold(_, _, _, _, _, _, _)
arith_fold(e, pos, result, k, m, tgt, depth) ==
  IF pos >= Len(e) - 1 THEN Ok(result, <<>>)
  ELSE
  LET second == Expression_evaluate(e[pos + 3], k, m, tgt, depth) IN
  IF second.exc # "none" THEN Raise(second.exc, <<>>)
  ELSE
  LET r == calculate(result, second.v, e[pos + 2]) IN
  IF r.exc # "none" THEN Raise(r.exc, <<>>)
  ELSE arith_fold(e, pos + 2, r.v, k, m, tgt, depth)

ArithmeticExpression_evaluate(n, k, m, tgt, depth) ==
  LET first == Expression_evaluate(n.e[1], k, m, tgt, depth) IN
  IF first.exc # "none" THEN Raise(first.exc, <<>>)
  ELSE arith_fold(n.e, 0, first.v, k, m, tgt, depth)

\* FunctionExpression.evaluate, lines 71-76: the argument list built from
\* element i on.  element.evaluate(my, target) binds key=my, my=target
\* and leaves target at its default None.
RECURSIVE function_arguments(_, _, _, _, _, _)
function_arguments(args, i, k, m, tgt, depth) ==
  IF i > Len(args) THEN Ok(<<>>, <<>>)
  ELSE
  LET element == args[i]
      one == IF IsExpression(element)
               THEN Expression_evaluate(element, m, tgt, NoneVal, depth)
               ELSE Ok(element, <<>>)
  IN
  IF one.exc # "none" THEN Raise(one.exc, <<>>)
  ELSE
  LET rest == function_arguments(args, i + 1, k, m, tgt, depth) IN
  IF rest.exc # "none" THEN Raise(rest.exc, <<>>)
  ELSE Ok(<<one.v>> \o rest.v, <<>>)

\* the call getattr(_functions, name)(*expression): the function library
\* is outside this module, the value is the call it receives
FunctionExpression_evaluate(n, k, m, tgt, depth) ==
  LET expression == function_arguments(n.args, 1, k, m, tgt, depth) IN
  IF expression.exc # "none" THEN Raise(expression.exc, <<>>)
  ELSE Ok([t |-> "call", name |-> n.name, args |-> expression.v], <<>>)

\* x.evaluate(key=k, my=m, target=tgt) by the class of x; a literal has no
\* evaluate, the base class returns NotImplemented
Expression_evaluate(x, k, m, tgt, depth) ==
  IF depth > MaxDepth THEN Raise("RecursionError", <<>>)
  ELSE
  CASE x.t = "attr" -> AttributeExpression_evaluate(x, k, m, tgt, depth)
    [] x.t = "dot" -> DotExpression_evaluate(x, k, m, tgt)
    [] x.t = "arith" -> ArithmeticExpression_evaluate(x, k, m, tgt, depth + 1)
    [] x.t = "func" -> FunctionExpression_evaluate(x, k, m, tgt, depth + 1)
    [] x.t = "named" -> Ok([t |-> "NotImplemented"], <<>>)
    [] OTHER -> Raise("AttributeError", <<>>)

---------------------------------------------------------------------------
(* The == of Python on nodes and literals: __eq__ of the left operand, and *)
(* for a number on the left the reflected __eq__ of the right operand      *)

False == Ok(Bool(FALSE), <<>>)

RECURSIVE PyEq(_, _)

\* list == list: the lengths, then the elements in order
RECURSIVE ListEq(_, _, _)
ListEq(x, y, i) ==
  IF Len(x) # Len(y) THEN False
  ELSE IF i > Len(x) THEN Ok(Bool(TRUE), <<>>)
  ELSE LET r == PyEq(x[i], y[i]) IN
       IF r.exc # "none" THEN r
       ELSE IF ~r.v.b THEN False
       ELSE ListEq(x, y, i + 1)

\* Expression.__eq__, lines 43-44
Expression_eq(self, o) ==
  IF self.t # o.t THEN False ELSE Ok(Bool(self.e = o.e), <<>>)

\* FunctionExpression.__eq__, lines 61-66
FunctionExpression_eq(self, o) ==
  IF self.t # o.t THEN False
  ELSE LET r == ListEq(self.args, o.args, 1) IN
       IF r.exc # "none" THEN r
       ELSE Ok(Bool(r.v.b /\ self.name = o.name), <<>>)

\* AttributeExpression.__eq__, lines 144-149
AttributeExpression_eq(self, o) ==
  IF self.t = o.t
    THEN Ok(Bool(self.form = o.form /\ self.name = o.name), <<>>)
    ELSE Raise("TypeError", <<>>)

\* ArithmeticExpression.__eq__, lines 263-274: the tuple of the three
\* comparisons is built whole before all() reads it
ArithmeticExpression_eq(self, o) ==
  IF self.t = o.t
    THEN LET c0 == PyEq(self.e[1], o.e[1])
             c2 == PyEq(self.e[3], o.e[3])
         IN IF c0.exc # "none" THEN c0
            ELSE IF c2.exc # "none" THEN c2
            ELSE Ok(Bool(/\ c0.v.b
                         /\ operator_of(self.e[2]) = operator_of(o.e[2])
                         /\ c2.v.b), <<>>)
    ELSE False

PyEq(a, b) ==
  CASE a.t = "attr" -> AttributeExpression_eq(a, b)
    [] a.t = "arith" -> ArithmeticExpression_eq(a, b)
    [] a.t = "func" -> FunctionExpression_eq(a, b)
    [] a.t \in {"named", "dot"} -> Expression_eq(a, b)
    [] IsNumeric(a) ->
         IF IsNumeric(b) THEN NumericApply("==", a, b)
         ELSE IF b.t = "attr" THEN AttributeExpression_eq(b, a)
         ELSE False
    [] OTHER -> Ok(Bool(a = b), <<>>)

---------------------------------------------------------------------------
(* Inputs of the attribute-reference specification *)

NestPath(i) == [j \in 1..i |-> "n"]
Scopes == {NestPath(i) : i \in 0..MaxNest}
RecPaths == {NestPath(i) : i \in 1..MaxNest}
LeafPaths == {<<"a">>, <<"b">>} \cup {Append(NestPath(i), "a") : i \in 1..MaxNest}

LeafValues == {Undefined, Num(5), RelRef(<<"a">>), RelRef(<<"b">>), AbsRef(<<"n", "a">>)}

MkAd(leaf) ==
  Ad([p \in LeafPaths \cup RecPaths |-> IF p \in RecPaths THEN Rec(p) ELSE leaf[p]])

Ads == {MkAd(leaf) : leaf \in [LeafPaths -> LeafValues]}

AttrRefs == {RelRef(<<"a">>), RelRef(<<"b">>), RelRef(<<"n", "a">>),
             AbsRef(<<"a">>), AbsRef(<<"n", "a">>), SuperRef(<<"a">>), SuperRef(<<"b">>)}

\* valid scope keys, a key that names a leaf, and the default key=None
AttrKeys == {Str(s) : s \in Scopes} \cup {Str(<<"a">>), NoneVal}

NoRet == [exc |-> "pending", v |-> NoneVal, trace |-> <<>>]

InitAttr ==
  /\ pc = "ready"
  /\ node \in AttrRefs
  /\ other = NoneVal
  /\ key \in AttrKeys
  /\ my \in Ads
  /\ target = NoneVal
  /\ ret = NoRet

AttrEvaluate ==
  /\ pc = "ready"
  /\ node.t = "attr"
  /\ ret' = AttributeExpression_evaluate(node, key, my, target, 1)
  /\ pc' = "done"
  /\ UNCHANGED <<node, other, key, my, target>>

NextAttr == AttrEvaluate

SpecAttr == InitAttr /\ [][NextAttr]_vars

---------------------------------------------------------------------------
(* The Dot specification: one DotExpression.evaluate call *)

DotRights == {RelRef(<<"a">>), RelRef(<<"b">>), RelRef(<<"n", "a">>)}

InitDot ==
  /\ pc = "ready"
  /\ node \in {Dot(left, right) : left \in Ads, right \in DotRights}
  /\ other = NoneVal
  /\ key = Str(<<>>)
  /\ my = NoneVal
  /\ target = NoneVal
  /\ ret = NoRet

DotEvaluate ==
  /\ pc = "ready"
  /\ node.t = "dot"
  /\ ret' = DotExpression_evaluate(node, key, my, target)
  /\ pc' = "done"
  /\ UNCHANGED <<node, other, key, my, target>>

NextDot == DotEvaluate

SpecDot == InitDot /\ [][NextDot]_vars

---------------------------------------------------------------------------
(* The Function specification: one FunctionExpression.evaluate call *)

FuncArgs == {RelRef(<<"a">>), AbsRef(<<"a">>), SuperRef(<<"a">>), Num(5), Undefined}

FuncArgLists(most) ==
  UNION {[1..n -> FuncArgs] : n \in 0..most}

\* records that differ in a at the top and in a of the nested record
FuncAds ==
  {MkAd([p \in LeafPaths |-> IF p = <<"a">> THEN x
                             ELSE IF p = <<"n", "a">> THEN y
                             ELSE Undefined]) :
     x \in LeafValues, y \in LeafValues}

TargetAd == MkAd([p \in LeafPaths |-> IF p = <<"a">> THEN Num(7) ELSE Undefined])

InitFunc ==
  /\ pc = "ready"
  /\ node \in {Func("f", args) : args \in FuncArgLists(MaxArgs)}
  /\ other = NoneVal
  /\ key \in {Str(<<>>), Str(<<"n">>)}
  /\ my \in FuncAds
  /\ target \in {NoneVal, TargetAd}
  /\ ret = NoRet

FuncEvaluate ==
  /\ pc = "ready"
  /\ node.t = "func"
  /\ ret' = FunctionExpression_evaluate(node, key, my, target, 1)
  /\ pc' = "done"
  /\ UNCHANGED <<node, other, key, my, target>>

NextFunc == FuncEvaluate

SpecFunc == InitFunc /\ [][NextFunc]_vars

---------------------------------------------------------------------------
(* The Arithmetic specification: from_grammar on a parsed chain, then      *)
(* evaluate of the node when construction left it lazy                     *)

RECURSIVE Chains(_, _, _)
Chains(operands, ops, pairs) ==
  IF pairs = 0 THEN {<<x>> : x \in operands}
  ELSE {c \o <<o, y>> : c \in Chains(operands, ops, pairs - 1), o \in ops, y \in operands}

ArithOperands == {Num(1), Num(2), Num(3), RelRef(<<"a">>), RelRef(<<"b">>)}

ArithChains(most) == UNION {Chains(ArithOperands, Ops, n) : n \in 1..most}

\* x = 5 at the top, overridden to 10 in the nested scope n
ArithAd ==
  MkAd([p \in LeafPaths |-> IF p = <<"a">> THEN Num(5)
                            ELSE IF p = <<"n", "a">> THEN Num(10)
                            ELSE Undefined])

InitArith ==
  /\ pc = "parsed"
  /\ node \in {[t |-> "tokens", e |-> c] : c \in ArithChains(MaxPairs)}
  /\ other = NoRet
  /\ key \in {Str(<<>>), Str(<<"n">>)}
  /\ my = ArithAd
  /\ target = NoneVal
  /\ ret = NoRet

ArithFromGrammar ==
  /\ pc = "parsed"
  /\ other' = ArithmeticExpression_from_grammar(node.e)
  /\ pc' = "built"
  /\ UNCHANGED <<node, key, my, target, ret>>

ArithEvaluate ==
  /\ pc = "built"
  /\ other.exc = "none"
  /\ other.v.t = "arith"
  /\ ret' = ArithmeticExpression_evaluate(other.v, key, my, target, 1)
  /\ pc' = "evaluated"
  /\ UNCHANGED <<node, other, key, my, target>>

NextArith == ArithFromGrammar \/ ArithEvaluate

SpecArith == InitArith /\ [][NextArith]_vars

---------------------------------------------------------------------------
(* The equality specification: one node == node comparison *)

EqOperands == {RelRef(<<"a">>), RelRef(<<"b">>), Num(1)}
EqOps == {"+", "isnt", "=!="}

\* the lazy Arithmetic nodes from_grammar builds from these chains
LazyNodes(most) ==
  LET chains == UNION {Chains(EqOperands, EqOps, n) : n \in 1..most} IN
  {r.v : r \in {ArithmeticExpression_from_grammar(c) : c \in chains}}
    \cap {Arith(c) : c \in chains}

EqNodes(most) ==
  LazyNodes(most)
    \cup {Named("a"), Named("b"), RelRef(<<"a">>), RelRef(<<"b">>), AbsRef(<<"a">>)}
    \cup {Func(f, args) : f \in {"f", "g"},
                          args \in {<<>>, <<RelRef(<<"a">>)>>, <<Num(1)>>,
                                    <<RelRef(<<"a">>), Num(1)>>}}

InitEq ==
  /\ pc = "ready"
  /\ node \in EqNodes(MaxPairs)
  /\ other \in EqNodes(MaxPairs)
  /\ key = Str(<<>>)
  /\ my = NoneVal
  /\ target = NoneVal
  /\ ret = NoRet

ExprEq ==
  /\ pc = "ready"
  /\ ret' = PyEq(node, other)
  /\ pc' = "done"
  /\ UNCHANGED <<node, other, key, my, target>>

NextEq == ExprEq

SpecEq == InitEq /\ [][NextEq]_vars

---------------------------------------------------------------------------
(* Claims about AttributeExpression.evaluate, checked under SpecAttr *)

AttrDone == pc = "done" /\ node.t = "attr"

ValidScopeKey == key.t = "str" /\ key.s \in Scopes

\* the scopes from K outward to the root, innermost first
Outward(K) == [i \in 1..(Len(K) + 1) |-> SubSeq(K, 1, Len(K) + 1 - i)]

\* name N is Undefined in scope S of the record
AbsentIn(S, N) ==
  LET g == GetItem(my.d, S, N) IN g.exc = "none" /\ g.v.t = "undef"

AbsentEverywhere(K, N) == \A i \in 1..(Len(K) + 1) : AbsentIn(Outward(K)[i], N)

TwoHopCycle ==
  /\ my.d[<<"a">>] = RelRef(<<"b">>)
  /\ my.d[<<"b">>] = RelRef(<<"a">>)

\* C1: in a record where a is a relative reference to b and b a relative
\* reference to a, evaluating the reference to a (or to b) returns the
\* Undefined marker; no exception leaves the call.
C1_TwoHopCycleYieldsUndefined ==
  (AttrDone /\ TwoHopCycle /\ key = Str(<<>>) /\ node \in {RelRef(<<"a">>), RelRef(<<"b">>)})
    => (ret.exc = "none" /\ ret.v = Undefined)

\* C2 as stated: an absolute reference starts its walk one level up from
\* the caller's scopeKey and looks up the whole dotted tail.
C2_AbsoluteStartsAboveScopeKey ==
  (AttrDone /\ node.form = "." /\ key.t = "str")
    => /\ ret.trace # <<>>
       /\ ret.trace[1].key = Str(ButLast(key.s))
       /\ ret.trace[1].name = node.name

\* C2 amended: for every scopeKey, an absolute reference starts its walk
\* one level up from the reference's own dotted tail and looks up the last
\* component of that tail.
C2_AbsoluteStartsAboveOwnPath ==
  (AttrDone /\ node.form = ".")
    => /\ ret.trace # <<>>
       /\ ret.trace[1].key = Str(ButLast(node.name))
       /\ ret.trace[1].name = <<Last(node.name)>>

C2_Witness ==
  /\ AttrDone
  /\ node = AbsRef(<<"n", "a">>)
  /\ key = Str(NestPath(MaxNest))
  /\ ret.trace[1] = [key |-> Str(<<"n">>), name |-> <<"a">>]
  /\ ret.exc = "none"
  /\ ret.v = Num(5)

\* C6: a super-qualified reference evaluated at any scope K (the top level
\* included) makes its first lookup exactly one level above K, never in K.
C6_SuperStartsAboveCurrentScope ==
  (AttrDone /\ node.form = "super" /\ ValidScopeKey /\ ret.trace # <<>>)
    => /\ ret.trace[1].key # key
       /\ Len(ret.trace[1].key.s) = Len(key.s) - 1

\* C7: a relative reference to a name that is Undefined in scope K and in
\* every enclosing scope looks the name up once in each scope from K
\* outward to the root and returns the Undefined marker.
C7_AbsentNameYieldsUndefined ==
  (AttrDone /\ node.form = "rel" /\ ValidScopeKey /\ AbsentEverywhere(key.s, node.name))
    => /\ ret.exc = "none"
       /\ ret.v = Undefined
       /\ ret.trace = [i \in 1..(Len(key.s) + 1) |->
                         [key |-> Str(Outward(key.s)[i]), name |-> node.name]]

C7_Witness ==
  /\ AttrDone
  /\ node = RelRef(<<"a">>)
  /\ key = Str(NestPath(MaxNest))
  /\ AbsentEverywhere(key.s, node.name)
  /\ my.d[<<"b">>] = Num(5)
  /\ ret.v = Undefined
  /\ Len(ret.trace) = MaxNest + 1

---------------------------------------------------------------------------
(* Claims about ArithmeticExpression, checked under SpecArith *)

Built == pc \in {"built", "evaluated"} /\ node.t = "tokens"

OperandPositions(e) == {i \in 1..Len(e) : i % 2 = 1}

\* (((v0 op1 v1) op2 v2) ... opn vn), operand i + 1 applied to acc next
RECURSIVE LeftFold(_, _, _)
LeftFold(e, i, acc) ==
  IF i >= Len(e) THEN Ok(acc, <<>>)
  ELSE LET r == operator_map(e[i + 1], acc, e[i + 2]) IN
       IF r.exc # "none" THEN r ELSE LeftFold(e, i + 2, r.v)

\* C3: from_grammar on (operand, operator, operand), with a reference as
\* one operand or as both, returns the lazy node that holds the three
\* tokens, for every operator of the table.
C3_ReferenceOperandStaysLazy ==
  (Built /\ Len(node.e) = 3 /\ (node.e[1].t = "attr" \/ node.e[3].t = "attr"))
    => other = Ok(Arith(node.e), <<>>)

\* C4: from_grammar on a chain of numbers returns the left fold of the
\* whole chain, whenever that fold has a value.
C4_ConstructionFoldsWholeChain ==
  (/\ Built
   /\ \A i \in OperandPositions(node.e) : node.e[i].t = "num"
   /\ LeftFold(node.e, 1, node.e[1]).exc = "none")
    => other = LeftFold(node.e, 1, node.e[1])

\* C5: evaluating the lazy node (reference to a, "+", number c) against a
\* record in which a resolves to the number n returns n + c.
C5_LazySumUsesLiveRecord ==
  (/\ pc = "evaluated"
   /\ Len(node.e) = 3
   /\ node.e[1] = RelRef(<<"a">>)
   /\ node.e[2] = "+"
   /\ node.e[3].t = "num"
   /\ AttributeExpression_evaluate(node.e[1], key, my, target, 1).v.t = "num")
    => ret = Ok(Num(AttributeExpression_evaluate(node.e[1], key, my, target, 1).v.n
                    + node.e[3].n), <<>>)

---------------------------------------------------------------------------
(* Claim about __eq__, checked under SpecEq *)

\* C8: node == node returns True when the two nodes are of the same kind
\* with the same raw children, returns False otherwise, and never raises.
C8_EqualityIsStructural ==
  (pc = "done" /\ IsExpression(node) /\ IsExpression(other))
    => ret = Ok(Bool(node = other), <<>>)

---------------------------------------------------------------------------
(* Claim about FunctionExpression.evaluate, checked under SpecFunc *)

InCallerContext(x) == Expression_evaluate(x, key, my, target, 1)

\* C9: the function receives one entry per argument, in order: the value
\* of evaluate(scopeKey, my, target) for an Expression argument, the
\* argument itself for a literal.
C9_ArgumentsEvaluatedInCallerContext ==
  (/\ pc = "done"
   /\ node.t = "func"
   /\ \A i \in 1..Len(node.args) :
        IsExpression(node.args[i]) => InCallerContext(node.args[i]).exc = "none")
    => /\ ret.exc = "none"
       /\ ret.v.name = node.name
       /\ ret.v.args = [i \in 1..Len(node.args) |->
                          IF IsExpression(node.args[i])
                            THEN InCallerContext(node.args[i]).v
                            ELSE node.args[i]]

---------------------------------------------------------------------------
(* Claims about DotExpression.evaluate, checked under SpecDot *)

NoRepeat(tr) == \A i, j \in 1..Len(tr) : tr[i] = tr[j] => i = j

\* every reference stored in the left-hand record is of the relative form
OnlyRelativeReferences(d) ==
  \A p \in DOMAIN d : d[p].t = "attr" => d[p].form = "rel"

\* C10: the walk returns (it does not raise): Undefined when a reference
\* name recurs, otherwise the first value that is not a reference; no
\* name is visited twice.
C10_DotWalkReturns ==
  (pc = "done" /\ node.t = "dot")
    => /\ ret.exc = "none"
       /\ ret.v.t # "attr"
       /\ NoRepeat(ret.trace)

\* the same walk over records whose references are all relative
DotWalkReturnsOnRelativeReferences ==
  (pc = "done" /\ node.t = "dot" /\ OnlyRelativeReferences(node.left.d))
    => /\ ret.exc = "none"
       /\ ret.v.t # "attr"
       /\ NoRepeat(ret.trace)

====
